---- MODULE Spec2Model ----
(***************************************************************************)
(* ReCom proposal generation (random_split, src/recom/mod.rs) and the      *)
(* multithreaded short-bursts optimizer (src/recom/opt/short_bursts.rs).   *)
(*                                                                         *)
(* Two specifications share this module:                                   *)
(*   SplitSpec  one call of random_split, one action per loop iteration,   *)
(*              on every bounded subgraph / spanning tree / envelope, with *)
(*              scratch and proposal buffers left over from earlier calls; *)
(*   Spec       the driver of ShortBurstsOptimizer::optimize and its       *)
(*              worker threads, communicating over unbounded channels.     *)
(***************************************************************************)
EXTENDS Integers, Sequences, FiniteSets, TLC

\* ------------------------------------------------------------- bounds
\* Largest two-district subgraph (number of nodes).
MaxN == 4
\* Largest population of a single node.
MaxPop == 1
\* Largest number of subgraph edges that are not spanning-tree edges.
MaxExtra == 1

\* Largest number of worker threads.
MaxThreads == 2
\* Largest burst length.
MaxBurst == 2
\* Largest configured number of steps.
MaxSteps == 2
\* Plans are 0..MaxPlan, scores 0..MaxScore.
MaxPlan == 1
MaxScore == 1

\* The scratch buffers are sized to an upper bound on the subgraph size
\* (buf_size, short_bursts.rs line 79).
BufSize == MaxN
\* The population envelope ranges over 0..MaxTotal.
MaxTotal == MaxN * MaxPop

VARIABLES
    sin,            \* the arguments of the random_split call
    spc,            \* position inside random_split
    root,           \* local `root`
    balance_node,   \* local `balance_node`
    a_pop,          \* local `a_pop`
    buf,            \* the SplitBuffer `buf`
    proposal,       \* the RecomProposal `proposal`
    result,         \* what the call returned
    seam,           \* what seam_length returned for the proposal, if called
    cfg,            \* ShortBurstsOptimizer fields, params.num_steps, obj_fn
    dpc,            \* position of the main thread inside optimize
    step,           \* optimize: `step`
    partition,      \* optimize: `partition`
    score,          \* optimize: `score`
    diff,           \* optimize: `diff`
    got,            \* optimize: index of the `for _ in 0..n_threads` loop
    jobs,           \* per worker: the job channel (main -> worker)
    results,        \* the shared result channel (workers -> main)
    wpc,            \* per worker: position inside start_opt_thread
    wst,            \* per worker: the locals of start_opt_thread
    roundLog,       \* history: the results received in the current round
    roundBase,      \* history: the main thread's plan and score at round start
    ahead           \* history: per worker, bursts started minus rounds completed;
                    \* accepted steps of all workers minus the main thread's `step`

svars == <<sin, spc, root, balance_node, a_pop, buf, proposal, result, seam>>
ovars == <<cfg, dpc, step, partition, score, diff, got, jobs, results, wpc, wst,
           roundLog, roundBase, ahead>>
vars == <<svars, ovars>>

\* ------------------------------------------------------------- helpers
Min(S) == CHOOSE x \in S : \A y \in S : x <= y

RECURSIVE SortedSeq(_)
SortedSeq(S) == IF S = {} THEN <<>>
                ELSE LET m == Min(S) IN <<m>> \o SortedSeq(S \ {m})

RECURSIVE SumSeq(_, _)
\* sum of f[s[k]] over the entries of the sequence s
SumSeq(f, s) == IF s = <<>> THEN 0 ELSE f[Head(s)] + SumSeq(f, Tail(s))

RECURSIVE SumSet(_, _)
SumSet(f, S) == IF S = {} THEN 0
                ELSE LET x == CHOOSE x \in S : TRUE IN f[x] + SumSet(f, S \ {x})

Range(s) == {s[k] : k \in DOMAIN s}
Front(s) == SubSeq(s, 1, Len(s) - 1)
Last(s) == s[Len(s)]

\* ------------------------------------------------------------- inputs
Nodes(n) == 0 .. (n - 1)
AllPairs(n) == {{i, j} : i, j \in Nodes(n)} \ {{i} : i \in Nodes(n)}

RECURSIVE Reach(_, _)
Reach(E, S) == LET T == S \cup {v \in UNION E : \E u \in S : {u, v} \in E}
               IN IF T = S THEN S ELSE Reach(E, T)
Connected(n, E) == Reach(E, {0}) = Nodes(n)

\* all labelled spanning trees on n nodes, as edge sets
Trees(n) == {E \in SUBSET AllPairs(n) : Cardinality(E) = n - 1 /\ Connected(n, E)}

\* adjacency lists of an edge set (Graph.neighbors, MST)
AdjList(n, E) == [i \in Nodes(n) |-> SortedSeq({j \in Nodes(n) : {i, j} \in E /\ j # i})]

\* subgraph_map: local index -> index in the parent graph (never the identity)
SubgraphMaps(n) == {[i \in Nodes(n) |-> 3 * (n - i)]}

\* a connected subgraph together with one of its spanning trees
Graphs(n) ==
    UNION {{[tree |-> T, edges |-> T \cup X] :
                X \in {Y \in SUBSET (AllPairs(n) \ T) : Cardinality(Y) <= MaxExtra}} :
           T \in Trees(n)}

\* the population-balance envelopes (min_pop <= max_pop)
Envelopes == {e \in (0 .. MaxTotal) \X (0 .. MaxTotal) : e[1] <= e[2]}

InputsOf(n) ==
    {[n |-> n,
      neighbors |-> AdjList(n, g.edges),
      pops |-> pops,
      total_pop |-> SumSet(pops, Nodes(n)),
      mst |-> AdjList(n, g.tree),
      a |-> 1,
      b |-> 2,
      subgraph_map |-> m,
      min_pop |-> env[1],
      max_pop |-> env[2]] :
        g \in Graphs(n), pops \in [Nodes(n) -> 0 .. MaxPop],
        m \in SubgraphMaps(n), env \in Envelopes}

SplitInputs == UNION {InputsOf(n) : n \in 2 .. MaxN}

\* ------------------------------------------------------------- buffers
BufIdx == 0 .. (BufSize - 1)

\* SplitBuffer::new(buf_size, balance_ub)
SplitBufferNew ==
    [visited |-> [i \in BufIdx |-> FALSE],
     pred |-> [i \in BufIdx |-> 0],
     succ |-> [i \in BufIdx |-> <<>>],
     deque |-> <<>>,
     pop_found |-> [i \in BufIdx |-> FALSE],
     tree_pops |-> [i \in BufIdx |-> 0],
     balance_nodes |-> <<>>,
     in_a |-> [i \in BufIdx |-> FALSE]]

\* SplitBuffer::clear: all flags reset, lists emptied, per-node values zeroed
BufClear(b) ==
    [b EXCEPT !.visited = [i \in BufIdx |-> FALSE],
              !.pred = [i \in BufIdx |-> 0],
              !.succ = [i \in BufIdx |-> <<>>],
              !.deque = <<>>,
              !.pop_found = [i \in BufIdx |-> FALSE],
              !.tree_pops = [i \in BufIdx |-> 0],
              !.balance_nodes = <<>>,
              !.in_a = [i \in BufIdx |-> FALSE]]

\* RecomProposal::new_buffer
NewProposalBuffer ==
    [a_label |-> 0, b_label |-> 0, a_pop |-> 0, b_pop |-> 0,
     a_nodes |-> <<>>, b_nodes |-> <<>>]

\* ProposalClear that leaves the node lists as they are
ProposalClearKeep(p) == p

\* RecomProposal::clear: the node lists are emptied, the integer fields are kept
ProposalClear(p) == [p EXCEPT !.a_nodes = <<>>, !.b_nodes = <<>>]

\* ------------------------------------------------------------- random_split
Pending == [kind |-> "pending", count |-> 0]
ErrNoRoot == [kind |-> "err_no_leaf_nodes", count |-> 0]
ErrNoCut == [kind |-> "err_no_balanced_cuts", count |-> 0]
Panicked == [kind |-> "panic", count |-> 0]
Ok(k) == [kind |-> "ok", count |-> k]

\* RootScan accepting any node that has a neighbour
RECURSIVE RootScanAnyDegree(_, _)
RootScanAnyDegree(in, r) ==
    IF r < in.n
    THEN IF Len(in.neighbors[r]) >= 1 THEN r ELSE RootScanAnyDegree(in, r + 1)
    ELSE r

\* lines 160-166: the first local index with more than one subgraph neighbour,
\* or n when there is none
RECURSIVE RootScan(_, _)
RootScan(in, r) ==
    IF r < in.n
    THEN IF Len(in.neighbors[r]) > 1 THEN r ELSE RootScan(in, r + 1)
    ELSE r

\* lines 157-171: clear both buffers, choose the root, seed the traversal
EnterStep(in, f) ==
    LET b == BufClear(f.buf)
        p == ProposalClear(f.proposal)
        r == RootScan(in, 0)
    IN IF r = in.n
       THEN [f EXCEPT !.pc = "done", !.buf = b, !.proposal = p, !.root = r,
                      !.result = ErrNoRoot]
       ELSE [f EXCEPT !.pc = "traverse", !.buf = [b EXCEPT !.deque = <<r>>],
                      !.proposal = p, !.root = r]

\* lines 172-181: one iteration of the breadth-first rooting loop
TraverseBody(in, b) ==
    LET next == Head(b.deque)
        vis == [b.visited EXCEPT ![next] = TRUE]
        kids == SelectSeq(in.mst[next], LAMBDA v : ~vis[v])
    IN [b EXCEPT !.deque = Tail(b.deque) \o kids,
                 !.visited = vis,
                 !.succ[next] = @ \o kids,
                 !.pred = [i \in BufIdx |-> IF i \in Range(kids) THEN next ELSE @[i]]]

\* lines 172-184: a traversal iteration; when the queue runs dry the
\* aggregation is seeded with the root
TraverseStep(in, f) ==
    LET b == TraverseBody(in, f.buf)
    IN IF b.deque = <<>>
       THEN [f EXCEPT !.pc = "aggregate", !.buf = [b EXCEPT !.deque = <<f.root>>]]
       ELSE [f EXCEPT !.buf = b]

\* AggregateBody that finalizes a node without waiting for its children
AggregateBodyEager(in, b) ==
    LET next == Last(b.deque)
        dq == Front(b.deque)
    IN IF b.pop_found[next]
       THEN [b EXCEPT !.deque = dq]
       ELSE [b EXCEPT !.deque = dq \o SelectSeq(b.succ[next], LAMBDA v : ~b.pop_found[v]),
                      !.tree_pops[next] = SumSeq(b.tree_pops, b.succ[next]) + in.pops[next],
                      !.pop_found[next] = TRUE]

\* AggregateBody in which an internal node forgets its own population
AggregateBodyNoOwn(in, b) ==
    LET next == Last(b.deque)
        dq == Front(b.deque)
    IN IF b.pop_found[next]
       THEN [b EXCEPT !.deque = dq]
       ELSE IF Len(in.neighbors[next]) = 1
       THEN [b EXCEPT !.deque = dq,
                      !.tree_pops[next] = in.pops[next],
                      !.pop_found[next] = TRUE]
       ELSE IF \A k \in DOMAIN b.succ[next] : b.pop_found[b.succ[next][k]]
       THEN [b EXCEPT !.deque = dq,
                      !.tree_pops[next] = SumSeq(b.tree_pops, b.succ[next]),
                      !.pop_found[next] = TRUE]
       ELSE [b EXCEPT !.deque = (dq \o <<next>>)
                         \o SelectSeq(b.succ[next], LAMBDA v : ~b.pop_found[v])]

\* lines 185-208: one iteration of the bottom-up population loop
AggregateBody(in, b) ==
    LET next == Last(b.deque)
        dq == Front(b.deque)
    IN IF b.pop_found[next]
       THEN [b EXCEPT !.deque = dq]
       ELSE IF Len(in.neighbors[next]) = 1
       THEN [b EXCEPT !.deque = dq,
                      !.tree_pops[next] = in.pops[next],
                      !.pop_found[next] = TRUE]
       ELSE IF \A k \in DOMAIN b.succ[next] : b.pop_found[b.succ[next][k]]
       THEN [b EXCEPT !.deque = dq,
                      !.tree_pops[next] = SumSeq(b.tree_pops, b.succ[next]) + in.pops[next],
                      !.pop_found[next] = TRUE]
       ELSE [b EXCEPT !.deque = (dq \o <<next>>)
                         \o SelectSeq(b.succ[next], LAMBDA v : ~b.pop_found[v])]

AggregateStep(in, f) ==
    LET b == AggregateBody(in, f.buf)
    IN IF b.deque = <<>>
       THEN [f EXCEPT !.pc = "balance", !.buf = b]
       ELSE [f EXCEPT !.buf = b]

\* IsBalanced without the test of the complement
IsBalancedOneSide(in, pop) ==
    /\ pop >= in.min_pop
    /\ pop <= in.max_pop

\* lines 212-215: the test applied to one entry of tree_pops
IsBalanced(in, pop) ==
    /\ pop >= in.min_pop
    /\ pop <= in.max_pop
    /\ in.total_pop - pop >= in.min_pop
    /\ in.total_pop - pop <= in.max_pop

\* lines 211-219: every index of tree_pops whose entry passes the test
BalanceScan(in, b) ==
    b.balance_nodes
        \o SelectSeq(SortedSeq(DOMAIN b.tree_pops),
                     LAMBDA i : IsBalanced(in, b.tree_pops[i]))

\* lines 210-234: collect the candidates, fail when there are none, otherwise
\* draw one (gen_range(0..len) yields `draw`) and seed the extraction
BalanceStep(in, f, draw) ==
    LET bn == BalanceScan(in, f.buf)
        b == [f.buf EXCEPT !.balance_nodes = bn]
    IN IF bn = <<>>
       THEN [f EXCEPT !.pc = "done", !.buf = b, !.result = ErrNoCut]
       ELSE LET node == bn[(draw % Len(bn)) + 1]
            IN [f EXCEPT !.pc = "extract",
                         !.buf = [b EXCEPT !.deque = @ \o <<node>>],
                         !.balance_node = node,
                         !.a_pop = 0]

\* BNodes without the in_a test
BNodesAll(in, b) ==
    LET rest == SortedSeq(Nodes(in.n))
    IN [k \in DOMAIN rest |-> in.subgraph_map[rest[k]]]

\* lines 245-249: side B is every local index not flagged in_a
BNodes(in, b) ==
    LET rest == SelectSeq(SortedSeq(Nodes(in.n)), LAMBDA i : ~b.in_a[i])
    IN [k \in DOMAIN rest |-> in.subgraph_map[rest[k]]]

\* lines 245-254: fill in side B, the labels and the populations
Finalize(in, f) ==
    [f EXCEPT !.pc = "done",
              !.proposal = [@ EXCEPT !.b_nodes = @ \o BNodes(in, f.buf),
                                     !.a_label = in.a,
                                     !.b_label = in.b,
                                     !.a_pop = f.a_pop,
                                     !.b_pop = in.total_pop - f.a_pop],
              !.result = Ok(Len(f.buf.balance_nodes))]

\* ExtractStep that follows the predecessor edge as well as the successors
ExtractStepBothWays(in, f) ==
    LET next == Head(f.buf.deque)
        dq == Tail(f.buf.deque)
    IN IF f.buf.in_a[next]
       THEN LET g == [f EXCEPT !.buf.deque = dq]
            IN IF dq = <<>> THEN Finalize(in, g) ELSE g
       ELSE IF next \notin DOMAIN in.subgraph_map \/ next \notin DOMAIN in.pops
       THEN [f EXCEPT !.pc = "done", !.buf.deque = dq, !.result = Panicked]
       ELSE LET g == [f EXCEPT !.buf.deque = (dq \o f.buf.succ[next]) \o <<f.buf.pred[next]>>,
                               !.buf.in_a[next] = TRUE,
                               !.proposal.a_nodes = @ \o <<in.subgraph_map[next]>>,
                               !.a_pop = @ + in.pops[next]]
            IN IF g.buf.deque = <<>> THEN Finalize(in, g) ELSE g

\* lines 235-254: one iteration of the side-A extraction loop; indexing
\* subgraph_map or pops beyond the subgraph panics; when the queue runs dry
\* the proposal is finalized
ExtractStep(in, f) ==
    LET next == Head(f.buf.deque)
        dq == Tail(f.buf.deque)
    IN IF f.buf.in_a[next]
       THEN LET g == [f EXCEPT !.buf.deque = dq]
            IN IF dq = <<>> THEN Finalize(in, g) ELSE g
       ELSE IF next \notin DOMAIN in.subgraph_map \/ next \notin DOMAIN in.pops
       THEN [f EXCEPT !.pc = "done", !.buf.deque = dq, !.result = Panicked]
       ELSE LET g == [f EXCEPT !.buf.deque = dq \o f.buf.succ[next],
                               !.buf.in_a[next] = TRUE,
                               !.proposal.a_nodes = @ \o <<in.subgraph_map[next]>>,
                               !.a_pop = @ + in.pops[next]]
            IN IF g.buf.deque = <<>> THEN Finalize(in, g) ELSE g

\* the next step of a call at position f.pc
Step(in, f, draw) ==
    CASE f.pc = "enter" -> EnterStep(in, f)
      [] f.pc = "traverse" -> TraverseStep(in, f)
      [] f.pc = "aggregate" -> AggregateStep(in, f)
      [] f.pc = "balance" -> BalanceStep(in, f, draw)
      [] f.pc = "extract" -> ExtractStep(in, f)
      [] OTHER -> f

\* the frame of a call that is about to start on the given buffers
EnterFrame(b, p) ==
    [pc |-> "enter", root |-> 0, balance_node |-> 0, a_pop |-> 0,
     buf |-> b, proposal |-> p, result |-> Pending]

\* random_split as a function: the frame at its return
RECURSIVE RunSplit(_, _, _)
RunSplit(in, f, draw) ==
    IF f.pc = "done" THEN f ELSE RunSplit(in, Step(in, f, draw), draw)

RandomSplit(in, b, p, draw) == RunSplit(in, EnterFrame(b, p), draw)

\* ------------------------------------------------------------- seam_length
\* the parent graph has the nodes 0 .. ParentSize - 1
ParentSize == 3 * MaxN + 1

\* the edges of the parent graph around the subgraph of a call: the subgraph's
\* edges in parent indices (the subgraph is induced), and for every node of
\* the subgraph one edge to a node of a third district
ParentEdges(in) ==
    UNION {{{in.subgraph_map[i], in.subgraph_map[in.neighbors[i][k]]} :
                k \in DOMAIN in.neighbors[i]} : i \in Nodes(in.n)}
      \cup {{in.subgraph_map[i], in.subgraph_map[i] - 1} : i \in Nodes(in.n)}

\* the parent graph (`graph`): symmetric adjacency lists
ParentGraph(in) ==
    [pops |-> [v \in Nodes(ParentSize) |-> 0],
     neighbors |-> AdjList(ParentSize, ParentEdges(in))]

\* SeamLength that counts every neighbour of a node of side B
SeamLengthAnyNeighbor(p, graph) ==
    LET hits == [v \in DOMAIN graph.pops |-> Len(graph.neighbors[v])]
    IN SumSeq(hits, p.b_nodes)

\* lines 109-123: mark side A, then count, over the nodes of side B in order,
\* the entries of their adjacency lists that are marked
SeamLength(p, graph) ==
    LET a_mask == [v \in DOMAIN graph.pops |-> v \in Range(p.a_nodes)]
        hits == [v \in DOMAIN graph.pops |->
                    Len(SelectSeq(graph.neighbors[v], LAMBDA x : a_mask[x]))]
    IN SumSeq(hits, p.b_nodes)

\* ------------------------------------------------------------- short bursts
None == <<>>
Some(x) == <<x>>

Plans == 0 .. MaxPlan
Scores == 0 .. MaxScore
Threads == 1 .. cfg.n_threads

\* the plan optimize is called with
InitialPlan == 0

\* ShortBurstsOptimizer::new with params.num_steps and an objective
Configs ==
    [n_threads : 1 .. MaxThreads,
     burst_length : 0 .. MaxBurst,
     num_steps : 0 .. MaxSteps,
     obj : [Plans -> Scores]]

\* the locals of a worker thread before its first job; `last` (the outcome of
\* the latest attempt) and `traj` (the plans held since the burst started)
\* are history
WorkerLocals ==
    [start_partition |-> InitialPlan, partition |-> InitialPlan,
     best_partition |-> None, score |-> 0, best_score |-> 0, step |-> 0,
     n_steps |-> 0, last |-> "none", traj |-> <<InitialPlan>>]

\* next_batch for every worker: one job with the burst length and `d`
NextBatch(js, d) ==
    [w \in DOMAIN js |->
        Append(js[w], [n_steps |-> cfg.burst_length, diff |-> d, terminate |-> FALSE])]

\* stop_opt_thread for every worker
StopAll(js) ==
    [w \in DOMAIN js |-> Append(js[w], [n_steps |-> 0, diff |-> None, terminate |-> TRUE])]

\* line 269: the loop condition
LoopContinues(st) == st <= cfg.num_steps

\* lines 269-270 and 302-306: the loop test with the step counter at `st`
\* and the job channels at `js`: either a round starts or every worker is
\* told to terminate
LoopHead(st, js) ==
    /\ step' = st
    /\ IF LoopContinues(st)
       THEN /\ jobs' = js
            /\ diff' = None
            /\ got' = 0
            /\ dpc' = "collect"
            /\ roundLog' = <<>>
            /\ roundBase' = [partition |-> partition, score |-> score]
       ELSE /\ jobs' = StopAll(js)
            /\ dpc' = "join"
            /\ UNCHANGED <<diff, got, roundLog, roundBase>>

\* lines 263-269: the initial jobs (only when num_steps > 0), then the loop test
DriverDispatch ==
    /\ dpc = "start"
    /\ LoopHead(step, IF cfg.num_steps > 0 THEN NextBatch(jobs, None) ELSE jobs)
    /\ UNCHANGED <<svars, cfg, partition, score, results, wpc, wst, ahead>>

\* Adopt that takes the packet's plan and score but records no replacement
\* plan for the next jobs
AdoptKeepDiff(packet) ==
    IF packet.best_partition # None /\ packet.best_score # None
    THEN /\ partition' = packet.best_partition[1]
         /\ score' = packet.best_score[1]
         /\ UNCHANGED diff
    ELSE UNCHANGED <<partition, score, diff>>

\* Adopt as a maximum reduction: a packet is taken only if it scores at least
\* the current score
AdoptIfBetter(packet) ==
    IF /\ packet.best_partition # None
       /\ packet.best_score # None
       /\ packet.best_score[1] >= score
    THEN /\ partition' = packet.best_partition[1]
         /\ score' = packet.best_score[1]
         /\ diff' = Some(packet.best_partition[1])
    ELSE UNCHANGED <<partition, score, diff>>

\* lines 273-279: what a received packet does to partition, score and diff
Adopt(packet) ==
    IF packet.best_partition # None /\ packet.best_score # None
    THEN /\ partition' = packet.best_partition[1]
         /\ score' = packet.best_score[1]
         /\ diff' = Some(packet.best_partition[1])
    ELSE UNCHANGED <<partition, score, diff>>

\* DriverRecv that sends the next batch after every packet
DriverRecvEager ==
    /\ dpc = "collect"
    /\ got < cfg.n_threads
    /\ results # <<>>
    /\ Adopt(Head(results))
    /\ results' = Tail(results)
    /\ got' = got + 1
    /\ roundLog' = Append(roundLog, Head(results))
    /\ jobs' = NextBatch(jobs, diff')
    /\ UNCHANGED <<svars, cfg, dpc, step, wpc, wst, roundBase, ahead>>

\* lines 271-279: one iteration of the for loop: block for a packet, adopt it
DriverRecv ==
    /\ dpc = "collect"
    /\ got < cfg.n_threads
    /\ results # <<>>
    /\ Adopt(Head(results))
    /\ results' = Tail(results)
    /\ got' = got + 1
    /\ roundLog' = Append(roundLog, Head(results))
    /\ UNCHANGED <<svars, cfg, dpc, step, jobs, wpc, wst, roundBase, ahead>>

\* lines 282-299 and the loop test: advance the counter, send the next batch
DriverRoundEnd ==
    /\ dpc = "collect"
    /\ got = cfg.n_threads
    /\ LoopHead(step + cfg.n_threads * cfg.burst_length, NextBatch(jobs, diff))
    /\ ahead' = [bursts |-> [w \in Threads |-> ahead.bursts[w] - 1],
                 steps |-> ahead.steps - cfg.n_threads * cfg.burst_length]
    /\ UNCHANGED <<svars, cfg, partition, score, results, wpc, wst>>

\* lines 306-308: the scope ends once every worker thread has exited
DriverJoin ==
    /\ dpc = "join"
    /\ \A w \in Threads : wpc[w] = "exited"
    /\ dpc' = "returned"
    /\ UNCHANGED <<svars, cfg, step, partition, score, diff, got, jobs, results, wpc,
                   wst, roundLog, roundBase, ahead>>

\* BurstStart that carries the best plan and best score over from the
\* previous burst
BurstStartKeepBest(l, job) ==
    LET base == IF job.diff # None THEN job.diff[1] ELSE l.start_partition
    IN [l EXCEPT !.start_partition = base,
                 !.partition = base,
                 !.score = cfg.obj[base],
                 !.step = 0,
                 !.n_steps = job.n_steps,
                 !.last = "none",
                 !.traj = <<base>>]

\* lines 99-107: the locals at the start of a burst for job `job`
BurstStart(l, job) ==
    LET base == IF job.diff # None THEN job.diff[1] ELSE l.start_partition
    IN [l EXCEPT !.start_partition = base,
                 !.partition = base,
                 !.best_partition = None,
                 !.score = cfg.obj[base],
                 !.best_score = cfg.obj[base],
                 !.step = 0,
                 !.n_steps = job.n_steps,
                 !.last = "none",
                 !.traj = <<base>>]

\* lines 141-150: the packet a worker sends at the end of a burst
ResultPacket(w, l) ==
    [from |-> w,
     best_partition |-> l.best_partition,
     best_score |-> IF l.best_partition # None THEN Some(l.best_score) ELSE None]

\* WorkerRecvJob that answers a termination job with a packet
WorkerRecvJobReply(w) ==
    /\ wpc[w] = "wait"
    /\ jobs[w] # <<>>
    /\ jobs' = [jobs EXCEPT ![w] = Tail(@)]
    /\ IF Head(jobs[w]).terminate
       THEN /\ wpc' = [wpc EXCEPT ![w] = "exited"]
            /\ UNCHANGED ahead
            /\ results' = Append(results, ResultPacket(w, wst[w]))
            /\ UNCHANGED wst
       ELSE /\ wpc' = [wpc EXCEPT ![w] = "burst"]
            /\ wst' = [wst EXCEPT ![w] = BurstStart(@, Head(jobs[w]))]
            /\ ahead' = [ahead EXCEPT !.bursts[w] = @ + 1]
            /\ UNCHANGED results
    /\ UNCHANGED <<svars, cfg, dpc, step, partition, score, diff, got,
                   roundLog, roundBase>>

\* lines 96-107 and 152-154: a blocked worker receives its next job; a
\* termination job ends the thread, any other job starts a burst
WorkerRecvJob(w) ==
    /\ wpc[w] = "wait"
    /\ jobs[w] # <<>>
    /\ jobs' = [jobs EXCEPT ![w] = Tail(@)]
    /\ IF Head(jobs[w]).terminate
       THEN /\ wpc' = [wpc EXCEPT ![w] = "exited"]
            /\ UNCHANGED ahead
            /\ UNCHANGED wst
       ELSE /\ wpc' = [wpc EXCEPT ![w] = "burst"]
            /\ wst' = [wst EXCEPT ![w] = BurstStart(@, Head(jobs[w]))]
            /\ ahead' = [ahead EXCEPT !.bursts[w] = @ + 1]
    /\ UNCHANGED <<svars, cfg, dpc, step, partition, score, diff, got, results,
                   roundLog, roundBase>>

\* lines 109-114: uniform_dist_pair finds no pair; the iteration is abandoned
WorkerPairFail(w) ==
    /\ wpc[w] = "burst"
    /\ wst[w].step < wst[w].n_steps
    /\ wst' = [wst EXCEPT ![w].last = "no_pair"]
    /\ UNCHANGED <<svars, cfg, dpc, step, partition, score, diff, got, jobs, results,
                   wpc, roundLog, roundBase, ahead>>

\* WorkerSplitFail in which a failed split uses up one step of the budget
WorkerSplitFailCounts(w) ==
    /\ wpc[w] = "burst"
    /\ wst[w].step < wst[w].n_steps
    /\ wst' = [wst EXCEPT ![w].last = "split_failed", ![w].step = @ + 1]
    /\ UNCHANGED <<svars, cfg, dpc, step, partition, score, diff, got, jobs, results,
                   wpc, roundLog, roundBase, ahead>>

\* lines 109-129: random_split fails; nothing is applied
WorkerSplitFail(w) ==
    /\ wpc[w] = "burst"
    /\ wst[w].step < wst[w].n_steps
    /\ wst' = [wst EXCEPT ![w].last = "split_failed"]
    /\ UNCHANGED <<svars, cfg, dpc, step, partition, score, diff, got, jobs, results,
                   wpc, roundLog, roundBase, ahead>>

\* Accept that records a plan only when the score exceeds the running best
AcceptStrict(l, plan) ==
    LET sc == cfg.obj[l.partition]
        better == sc > l.best_score
    IN [l EXCEPT !.score = sc,
                 !.partition = plan,
                 !.best_partition = IF better THEN Some(plan) ELSE @,
                 !.best_score = IF better THEN sc ELSE @,
                 !.step = @ + 1,
                 !.last = "accepted",
                 !.traj = Append(@, plan)]

\* Accept that evaluates the objective after the proposal is applied
AcceptPostScore(l, plan) ==
    LET sc == cfg.obj[plan]
        better == sc >= l.best_score
    IN [l EXCEPT !.score = sc,
                 !.partition = plan,
                 !.best_partition = IF better THEN Some(plan) ELSE @,
                 !.best_score = IF better THEN sc ELSE @,
                 !.step = @ + 1,
                 !.last = "accepted",
                 !.traj = Append(@, plan)]

\* lines 130-138: the locals after a successful split whose proposal turns
\* the plan into `plan`
Accept(l, plan) ==
    LET sc == cfg.obj[l.partition]
        better == sc >= l.best_score
    IN [l EXCEPT !.score = sc,
                 !.partition = plan,
                 !.best_partition = IF better THEN Some(plan) ELSE @,
                 !.best_score = IF better THEN sc ELSE @,
                 !.step = @ + 1,
                 !.last = "accepted",
                 !.traj = Append(@, plan)]

\* lines 109-139: random_split succeeds; the proposal is scored and applied
WorkerSplitOk(w) ==
    /\ wpc[w] = "burst"
    /\ wst[w].step < wst[w].n_steps
    /\ \E plan \in Plans : wst' = [wst EXCEPT ![w] = Accept(@, plan)]
    /\ ahead' = [ahead EXCEPT !.steps = @ + 1]
    /\ UNCHANGED <<svars, cfg, dpc, step, partition, score, diff, got, jobs, results,
                   wpc, roundLog, roundBase>>

\* lines 109 and 141-152: the budget is used up; send the packet and block
\* for the next job
WorkerSend(w) ==
    /\ wpc[w] = "burst"
    /\ ~(wst[w].step < wst[w].n_steps)
    /\ results' = Append(results, ResultPacket(w, wst[w]))
    /\ wpc' = [wpc EXCEPT ![w] = "wait"]
    /\ UNCHANGED <<svars, cfg, dpc, step, partition, score, diff, got, jobs, wst,
                   roundLog, roundBase, ahead>>

\* the optimizer before optimize is called (SplitSpec leaves it there)
OptParked ==
    /\ cfg = [n_threads |-> 1, burst_length |-> 1, num_steps |-> 0,
              obj |-> [p \in Plans |-> 0]]
    /\ dpc = "parked"
    /\ step = 0
    /\ partition = InitialPlan
    /\ score = 0
    /\ diff = None
    /\ got = 0
    /\ jobs = <<>>
    /\ results = <<>>
    /\ wpc = <<>>
    /\ wst = <<>>
    /\ roundLog = <<>>
    /\ roundBase = [partition |-> InitialPlan, score |-> 0]
    /\ ahead = [bursts |-> <<>>, steps |-> 0]

\* ------------------------------------------------------------- SplitSpec
\* An earlier call that used the same buffers on a subgraph as large as the
\* buffers: a path with full populations and the widest envelope, whose
\* candidates are all of its nodes.
PriorInput ==
    [n |-> BufSize,
     neighbors |-> AdjList(BufSize, {{i, i + 1} : i \in 0 .. (BufSize - 2)}),
     pops |-> [i \in Nodes(BufSize) |-> MaxPop],
     total_pop |-> BufSize * MaxPop,
     mst |-> AdjList(BufSize, {{i, i + 1} : i \in 0 .. (BufSize - 2)}),
     a |-> 3,
     b |-> 4,
     subgraph_map |-> [i \in Nodes(BufSize) |-> i + 5],
     min_pop |-> 0,
     max_pop |-> BufSize * MaxPop]

\* the draw of the earlier call: the root's higher child, which leaves both
\* node lists non-empty
PriorDraws == {2}

\* the buffers a call can find: fresh ones, or the ones an earlier call left
Leftovers ==
    {[buf |-> SplitBufferNew, proposal |-> NewProposalBuffer]}
        \cup {[buf |-> f.buf, proposal |-> f.proposal] :
                 f \in {RandomSplit(PriorInput, SplitBufferNew, NewProposalBuffer, d) :
                            d \in PriorDraws}}

CurFrame ==
    [pc |-> spc, root |-> root, balance_node |-> balance_node, a_pop |-> a_pop,
     buf |-> buf, proposal |-> proposal, result |-> result]

SetFrame(f) ==
    /\ spc' = f.pc
    /\ root' = f.root
    /\ balance_node' = f.balance_node
    /\ a_pop' = f.a_pop
    /\ buf' = f.buf
    /\ proposal' = f.proposal
    /\ result' = f.result
    /\ UNCHANGED <<sin, seam, ovars>>

SplitInit ==
    /\ sin \in SplitInputs
    /\ \E l \in Leftovers : buf = l.buf /\ proposal = l.proposal
    /\ spc = "enter"
    /\ root = 0
    /\ balance_node = 0
    /\ a_pop = 0
    /\ result = Pending
    /\ seam = None
    /\ OptParked

SplitEnter == spc = "enter" /\ SetFrame(EnterStep(sin, CurFrame))

SplitTraverse == spc = "traverse" /\ SetFrame(TraverseStep(sin, CurFrame))

SplitAggregate == spc = "aggregate" /\ SetFrame(AggregateStep(sin, CurFrame))

\* the values gen_range(0..k) can return (k > 0)
DrawRange(k) == 0 .. (IF k = 0 THEN 0 ELSE k - 1)

SplitBalance ==
    /\ spc = "balance"
    /\ \E draw \in DrawRange(Len(BalanceScan(sin, buf))) :
           SetFrame(BalanceStep(sin, CurFrame, draw))

SplitExtract == spc = "extract" /\ SetFrame(ExtractStep(sin, CurFrame))

\* the caller asks for the seam length of the proposal of a successful call
SplitSeam ==
    /\ spc = "done"
    /\ result.kind = "ok"
    /\ seam = None
    /\ seam' = Some(SeamLength(proposal, ParentGraph(sin)))
    /\ UNCHANGED <<sin, spc, root, balance_node, a_pop, buf, proposal, result, ovars>>

SplitNext ==
    \/ SplitEnter
    \/ SplitTraverse
    \/ SplitAggregate
    \/ SplitBalance
    \/ SplitExtract
    \/ SplitSeam

SplitSpec == SplitInit /\ [][SplitNext]_vars

\* ------------------------------------------------------------- Spec
\* optimize after it has created the channels, evaluated the objective on
\* the initial plan (line 237) and spawned the worker threads (lines 241-261)
Init ==
    /\ cfg \in Configs
    /\ dpc = "start"
    /\ step = 0
    /\ partition = InitialPlan
    /\ score = cfg.obj[InitialPlan]
    /\ diff = None
    /\ got = 0
    /\ jobs = [w \in Threads |-> <<>>]
    /\ results = <<>>
    /\ wpc = [w \in Threads |-> "wait"]
    /\ wst = [w \in Threads |-> WorkerLocals]
    /\ roundLog = <<>>
    /\ roundBase = [partition |-> InitialPlan, score |-> cfg.obj[InitialPlan]]
    /\ ahead = [bursts |-> [w \in Threads |-> 0], steps |-> 0]
    /\ sin = PriorInput
    /\ buf = SplitBufferNew
    /\ proposal = NewProposalBuffer
    /\ spc = "idle"
    /\ root = 0
    /\ balance_node = 0
    /\ a_pop = 0
    /\ result = Pending
    /\ seam = None

Next ==
    \/ DriverDispatch
    \/ DriverRecv
    \/ DriverRoundEnd
    \/ DriverJoin
    \/ \E w \in Threads : WorkerRecvJob(w)
    \/ \E w \in Threads : WorkerPairFail(w)
    \/ \E w \in Threads : WorkerSplitFail(w)
    \/ \E w \in Threads : WorkerSplitOk(w)
    \/ \E w \in Threads : WorkerSend(w)

Spec == Init /\ [][Next]_vars

\* ------------------------------------------------------------- random_split: reference notions
\* the edges of the spanning tree handed to the call
MstEdges(in) ==
    UNION {{{i, in.mst[i][k]} : k \in DOMAIN in.mst[i]} : i \in Nodes(in.n)}

\* v together with its descendants in the tree rooted at r: what the root
\* cannot reach once v is removed
SubtreeOf(in, r, v) ==
    IF v = r THEN Nodes(in.n)
    ELSE Nodes(in.n) \ Reach({e \in MstEdges(in) : v \notin e}, {r})

SubtreePop(in, r, v) == SumSet(in.pops, SubtreeOf(in, r, v))

InEnvelope(in, p) == in.min_pop <= p /\ p <= in.max_pop

\* the nodes whose subtree population and complement both lie in the envelope
Qualifying(in, r) ==
    {v \in Nodes(in.n) : /\ InEnvelope(in, SubtreePop(in, r, v))
                         /\ InEnvelope(in, in.total_pop - SubtreePop(in, r, v))}

Succeeded == spc = "done" /\ result.kind = "ok"

\* the local indices whose parent-graph index is listed in s
LocalOf(in, s) == {i \in Nodes(in.n) : in.subgraph_map[i] \in Range(s)}

\* ------------------------------------------------------------- claims
\* C1: whenever random_split returns success, a_nodes and b_nodes are
\* disjoint, together they are exactly the image of the local indices
\* 0..n-1 under the local-to-parent map, and a_pop + b_pop = total_pop.
C1_SplitPartitions ==
    Succeeded =>
        /\ Range(proposal.a_nodes) \cap Range(proposal.b_nodes) = {}
        /\ Range(proposal.a_nodes) \cup Range(proposal.b_nodes)
              = {sin.subgraph_map[i] : i \in Nodes(sin.n)}
        /\ proposal.a_pop + proposal.b_pop = sin.total_pop

\* a success on a subgraph with a cycle that puts two nodes on side A
C1_Witness ==
    /\ Succeeded
    /\ Len(proposal.a_nodes) >= 2
    /\ Len(proposal.b_nodes) >= 2
    /\ \E i \in Nodes(sin.n) : Len(sin.neighbors[i]) > Len(sin.mst[i])

\* C2: whenever random_split returns success, a_pop is the population of the
\* nodes placed in a_nodes and both a_pop and b_pop lie in [min_pop, max_pop].
C2_SplitBalanced ==
    Succeeded =>
        /\ proposal.a_pop = SumSet(sin.pops, LocalOf(sin, proposal.a_nodes))
        /\ InEnvelope(sin, proposal.a_pop)
        /\ InEnvelope(sin, proposal.b_pop)

\* a success under a strict envelope with unequal sides
C2_Witness ==
    /\ Succeeded
    /\ sin.min_pop >= 1
    /\ sin.max_pop < sin.total_pop
    /\ proposal.a_pop # proposal.b_pop

\* the 4-node path 0-1-2-3 with unit populations and the envelope [1, 3]
PathEdges4 == {{0, 1}, {1, 2}, {2, 3}}
IsUnitPath4 ==
    /\ sin.n = 4
    /\ sin.neighbors = AdjList(4, PathEdges4)
    /\ sin.mst = AdjList(4, PathEdges4)
    /\ sin.pops = [i \in Nodes(4) |-> 1]
    /\ sin.min_pop = 1
    /\ sin.max_pop = 3

\* C8 as stated: on the unit path the candidates collected are exactly the
\* two internal nodes 1 and 2.
C8_Original ==
    (IsUnitPath4 /\ spc \in {"extract", "done"}) => Range(buf.balance_nodes) = {1, 2}

\* C8 amended: on the unit path the tree is rooted at node 1 and the
\* candidates collected are nodes 0, 2 and 3 (one per tree edge; the root's
\* subtree is the whole path, above max_pop); each of the three is the cut
\* node for some draw, and the call succeeds with count 3.
C8_UnitPathCandidates ==
    IsUnitPath4 =>
        /\ spc \in {"extract", "done"} =>
              /\ root = 1
              /\ buf.balance_nodes = <<0, 2, 3>>
              /\ balance_node \in {0, 2, 3}
        /\ spc = "balance" =>
              \A v \in {0, 2, 3} :
                  \E draw \in DrawRange(Len(BalanceScan(sin, buf))) :
                      BalanceStep(sin, CurFrame, draw).balance_node = v
        /\ spc = "done" => result = Ok(3)

\* the call on the unit path returned after cutting below the end node 3
C8_Witness == IsUnitPath4 /\ Succeeded /\ balance_node = 3 /\ proposal.a_pop = 1

\* C9: random_split returns the "no leaf nodes" failure exactly when no node
\* of the subgraph has more than one neighbour; a two-node subgraph joined by
\* one edge always returns it, whatever the populations and the envelope.
C9_NoRootFailure ==
    spc = "done" =>
        /\ result = ErrNoRoot <=> (\A i \in Nodes(sin.n) : Len(sin.neighbors[i]) <= 1)
        /\ sin.n = 2 => result = ErrNoRoot

\* the call on a two-node subgraph with a balanced envelope returned
C9_Witness ==
    /\ spc = "done"
    /\ sin.n = 2
    /\ sin.pops = [i \in Nodes(2) |-> 1]
    /\ sin.min_pop = 1
    /\ sin.max_pop = 1
    /\ result = ErrNoRoot

\* C10: on success the returned count is the number of nodes of the subgraph
\* whose subtree population and complement both lie in the envelope, and the
\* chosen cut node is one of them.
C10_CountIsQualifying ==
    Succeeded =>
        /\ result.count = Cardinality(Qualifying(sin, root))
        /\ balance_node \in Qualifying(sin, root)

\* ------------------------------------------------------------- short bursts: claims
\* the number of entries of the sequence q that worker w sent
CountFrom(q, w) == Cardinality({k \in DOMAIN q : q[k].from = w})

\* what stands for worker w's share of the current round: its job not yet
\* received, its burst in progress, its packet in the channel, or its packet
\* already received by the main thread
RoundTokens(w) ==
    Len(jobs[w]) + (IF wpc[w] = "burst" THEN 1 ELSE 0)
        + CountFrom(results, w) + CountFrom(roundLog, w)

\* C3: every round is a barrier.  While the main thread is in a round, each
\* worker accounts for exactly one unit of that round (a job not yet taken, a
\* running burst, a packet in flight or a packet received), so the N packets
\* of a round come one from each worker, in any order, and no worker holds a
\* job of the next round before the round is complete; no worker ever has
\* more than one packet in the result channel.
C3_RoundBarrier ==
    /\ \A w \in Threads : CountFrom(results, w) <= 1
    /\ dpc = "collect" =>
          /\ Len(roundLog) = got
          /\ got <= cfg.n_threads
          /\ \A w \in Threads :
                RoundTokens(w) = (IF cfg.num_steps > 0 THEN 1 ELSE 0)
          /\ got = cfg.n_threads =>
                {roundLog[k].from : k \in DOMAIN roundLog} = Threads

\* a later round of two workers is complete and worker 2 reported first
C3_Witness ==
    /\ dpc = "collect"
    /\ cfg.n_threads = 2
    /\ got = 2
    /\ step > 0
    /\ roundLog[1].from = 2
    /\ roundLog[2].from = 1

\* the packets of the current round that carry a plan and a score
Carrying == SelectSeq(roundLog, LAMBDA r : r.best_partition # None /\ r.best_score # None)

\* C4: round aggregation is last-received-wins.  During and after the receipt
\* of a round's packets the main thread's plan and score are those of the
\* last packet received so far that carried a plan, whatever the scores; if
\* none carried a plan they are the ones the round started with and there is
\* no replacement plan.  The jobs sent at the end of the round carry exactly
\* that replacement plan (or none).
C4_LastReceivedWins ==
    /\ [](dpc = "collect" =>
            IF Carrying = <<>>
            THEN /\ partition = roundBase.partition
                 /\ score = roundBase.score
                 /\ diff = None
            ELSE /\ partition = Last(Carrying).best_partition[1]
                 /\ score = Last(Carrying).best_score[1]
                 /\ diff = Some(partition))
    /\ [][(dpc = "collect" /\ got = cfg.n_threads /\ jobs' # jobs) =>
             \A w \in Threads :
                 /\ jobs[w] = <<>>
                 /\ jobs'[w][1] = [n_steps |-> cfg.burst_length,
                                   diff |-> IF Carrying = <<>> THEN None
                                            ELSE Some(Last(Carrying).best_partition[1]),
                                   terminate |-> FALSE]]_vars

\* a round of two workers in which the first packet scored higher than the
\* second, and the main thread holds the second
C4_Witness ==
    /\ dpc = "collect"
    /\ got = 2
    /\ Len(Carrying) = 2
    /\ roundLog[1].best_score[1] > roundLog[2].best_score[1]
    /\ roundLog[1].best_partition # roundLog[2].best_partition
    /\ score = roundLog[2].best_score[1]
    /\ partition = roundLog[2].best_partition[1]

\* C5: a worker that has received a termination job has exited, stays exited
\* and sends nothing more; a worker leaves a burst only by sending its packet
\* and blocking for the next job; and a worker exits only from that blocked
\* position, on taking a termination job, without sending.
C5_TerminationAtJobBoundary ==
    [][\A w \in Threads :
          /\ wpc[w] = "exited" =>
                /\ wpc'[w] = "exited"
                /\ CountFrom(results', w) <= CountFrom(results, w)
          /\ wpc[w] = "burst" =>
                \/ wpc'[w] = "burst" /\ CountFrom(results', w) <= CountFrom(results, w)
                \/ /\ wpc'[w] = "wait"
                   /\ wst[w].step >= wst[w].n_steps
                   /\ results' = Append(results, ResultPacket(w, wst[w]))
          /\ (wpc[w] # "exited" /\ wpc'[w] = "exited") =>
                /\ wpc[w] = "wait"
                /\ jobs[w] # <<>>
                /\ Head(jobs[w]).terminate
                /\ results' = results]_vars

\* one worker has exited while the other is still inside a burst with its
\* termination job already queued
C5_Witness ==
    /\ dpc = "join"
    /\ cfg.n_threads = 2
    /\ wpc[1] = "exited"
    /\ wpc[2] = "burst"
    /\ jobs[2] # <<>>
    /\ Head(jobs[2]).terminate

\* C6 (its last sentence): with at least one worker and a burst length of at
\* least one, the main thread is never blocked waiting for a packet while
\* every worker is blocked waiting for a job.
C6_NoMutualWait ==
    cfg.burst_length >= 1 =>
        ~(/\ dpc = "collect"
          /\ got < cfg.n_threads
          /\ results = <<>>
          /\ \A w \in Threads : wpc[w] = "wait" /\ jobs[w] = <<>>)

\* C7: with a burst length of at least one, the main thread is in a round
\* only while its step counter is below num_steps, and when it has left the
\* loop the counter is the first multiple of N x burst_length that is at
\* least num_steps.
C7_RoundsMatchBudget ==
    cfg.burst_length >= 1 =>
        /\ dpc = "collect" => step < cfg.num_steps
        /\ dpc \in {"join", "returned"} =>
              /\ step >= cfg.num_steps
              /\ step - cfg.n_threads * cfg.burst_length < cfg.num_steps

\* ------------------------------------------------------------- random_split: further claims
\* the value gen_range returned in the call that has reached this state
DrawOf ==
    IF buf.balance_nodes = <<>> THEN 0
    ELSE CHOOSE d \in DrawRange(Len(buf.balance_nodes)) :
             buf.balance_nodes[d + 1] = balance_node

\* the same call (same subgraph, tree, labels, parameters and draw) made on
\* each of the buffers a call can find
Reruns == {RandomSplit(sin, l.buf, l.proposal, DrawOf) : l \in Leftovers}

SwapSides(p) ==
    [a_label |-> p.b_label, b_label |-> p.a_label, a_pop |-> p.b_pop, b_pop |-> p.a_pop,
     a_nodes |-> p.b_nodes, b_nodes |-> p.a_nodes]

\* the edges of the parent graph with one endpoint on each side
CutEdges(p, in) ==
    {e \in ParentEdges(in) :
        e \cap Range(p.a_nodes) # {} /\ e \cap Range(p.b_nodes) # {}}

\* C12: the value seam_length returns for the proposal of a successful call
\* is the number of parent-graph edges with one endpoint in a_nodes and the
\* other in b_nodes; the same value is returned for the proposal with the
\* sides exchanged; and the call leaves the proposal as it was.
C12_SeamLength ==
    /\ [](seam # None =>
            /\ seam[1] = Cardinality(CutEdges(proposal, sin))
            /\ SeamLength(SwapSides(proposal), ParentGraph(sin)) = seam[1])
    /\ [][seam' # seam => proposal' = proposal /\ sin' = sin]_vars

\* the seam of a split of a subgraph with a cycle consists of two edges, and
\* the side-B nodes have other neighbours besides
C12_Witness ==
    /\ seam = Some(2)
    /\ Len(proposal.a_nodes) >= 2
    /\ Len(proposal.b_nodes) >= 2

\* C13: once the root has been chosen it is the lowest local index whose
\* degree in the spanning tree exceeds one.
C13_RootIsTreeInternal ==
    (spc \notin {"enter", "idle"} /\ result # ErrNoRoot) =>
        /\ Len(sin.mst[root]) > 1
        /\ \A i \in Nodes(sin.n) : i < root => Len(sin.mst[i]) <= 1

\* the nodes whose population is not yet known
Unfound == {v \in Nodes(sin.n) : ~buf.pop_found[v]}

\* the unfinished nodes that have already been deferred once: one of their
\* children is finished or waiting in the queue
Deferred ==
    {v \in Unfound : \E k \in DOMAIN buf.succ[v] :
        buf.pop_found[buf.succ[v][k]] \/ buf.succ[v][k] \in Range(buf.deque)}

\* C14: the bottom-up aggregation terminates: every iteration of the loop
\* strictly lowers the measure 2 * |Unfound| - |Deferred|, which is a natural
\* number because Deferred is a subset of Unfound, so the loop runs at most
\* 2 * n iterations; a node is marked known only when all its children are
\* marked known; whenever a node is marked known its tree_pops entry is the
\* population of the node and all its descendants in the rooted tree and all
\* its children are marked known; and when the loop has ended every node of
\* the subgraph is marked known.
C14_Aggregation ==
    /\ [][spc = "aggregate" =>
             /\ 2 * Cardinality(Unfound') - Cardinality(Deferred')
                    < 2 * Cardinality(Unfound) - Cardinality(Deferred)
             /\ \A v \in Nodes(sin.n) :
                    (buf'.pop_found[v] /\ ~buf.pop_found[v]) =>
                        \A k \in DOMAIN buf.succ[v] : buf.pop_found[buf.succ[v][k]]]_vars
    /\ [](spc \in {"aggregate", "balance", "extract"} \/ Succeeded =>
            \A v \in Nodes(sin.n) :
                /\ buf.pop_found[v] =>
                      /\ buf.tree_pops[v] = SubtreePop(sin, root, v)
                      /\ \A k \in DOMAIN buf.succ[v] : buf.pop_found[buf.succ[v][k]]
                /\ spc # "aggregate" => buf.pop_found[v])

\* the aggregation of a star with a cycle edge has ended: the root has three
\* children, one of them a tree leaf with two subgraph neighbours
C14_Witness ==
    /\ spc = "balance"
    /\ sin.n = 4
    /\ Len(buf.succ[root]) = 3
    /\ \E k \in 1 .. 3 : Len(sin.neighbors[buf.succ[root][k]]) = 2
    /\ buf.tree_pops[root] = 4
    /\ \A v \in Nodes(sin.n) : buf.pop_found[v]

\* the local indices flagged as side A
InA == {v \in BufIdx : buf.in_a[v]}

\* C15: during the extraction from a chosen node of the subgraph only that
\* node and its descendants are queued or flagged (the predecessor edge of
\* the chosen node is never followed), and on success a_nodes lists exactly the chosen node and its
\* descendants in the rooted tree, each once and the chosen node first,
\* b_nodes lists every other node of the subgraph once, and a_pop is the
\* subtree population computed for the chosen node.
C15_SideAIsSubtree ==
    /\ (spc = "extract" /\ balance_node \in Nodes(sin.n)) =>
          /\ InA \cup Range(buf.deque) \subseteq SubtreeOf(sin, root, balance_node)
          /\ balance_node # root => buf.pred[balance_node] \notin InA \cup Range(buf.deque)
    /\ Succeeded =>
          /\ LocalOf(sin, proposal.a_nodes) = SubtreeOf(sin, root, balance_node)
          /\ Len(proposal.a_nodes) = Cardinality(SubtreeOf(sin, root, balance_node))
          /\ proposal.a_nodes[1] = sin.subgraph_map[balance_node]
          /\ LocalOf(sin, proposal.b_nodes)
                = Nodes(sin.n) \ SubtreeOf(sin, root, balance_node)
          /\ Len(proposal.b_nodes) = sin.n - Len(proposal.a_nodes)
          /\ a_pop = buf.tree_pops[balance_node]
          /\ proposal.a_pop = buf.tree_pops[balance_node]

\* a success that cut below a node which has a child and is not the root,
\* leaving its parent and another node on side B
C15_Witness ==
    /\ Succeeded
    /\ balance_node # root
    /\ buf.succ[balance_node] # <<>>
    /\ Len(proposal.b_nodes) >= 2
    /\ proposal.a_pop = 2

\* ------------------------------------------------------------- short bursts: further claims
\* C16: inside a burst every step of a worker is a failed attempt, an
\* accepted split or the sending of the result.  A failed pair selection or a
\* failed split leaves the step count, the local plan, the running best score
\* and the recorded best plan as they were and the worker in the burst with
\* the same budget left (no count of failures exists that could end the
\* retries); an accepted split raises the step count by exactly one and
\* replaces the local plan by the proposed one; the worker sends its result
\* exactly when the step count equals the job's budget, and never exceeds it.
C16_BurstSteps ==
    /\ [](\A w \in Threads : wpc[w] = "burst" => wst[w].step <= wst[w].n_steps)
    /\ [][\A w \in Threads :
             /\ (wpc[w] = "burst" /\ wst'[w] # wst[w]) =>
                   /\ wpc'[w] = "burst"
                   /\ results' = results
                   /\ wst[w].step < wst[w].n_steps
                   /\ wst'[w].n_steps = wst[w].n_steps
                   /\ wst'[w].start_partition = wst[w].start_partition
                   /\ \/ /\ wst'[w].last \in {"no_pair", "split_failed"}
                         /\ wst'[w].step = wst[w].step
                         /\ wst'[w].partition = wst[w].partition
                         /\ wst'[w].best_score = wst[w].best_score
                         /\ wst'[w].best_partition = wst[w].best_partition
                      \/ /\ wst'[w].last = "accepted"
                         /\ wst'[w].step = wst[w].step + 1
                         /\ wst'[w].partition \in Plans
             /\ CountFrom(results', w) > CountFrom(results, w) =>
                   /\ wpc[w] = "burst"
                   /\ wst[w].step = wst[w].n_steps
                   /\ wpc'[w] = "wait"
             /\ (wpc[w] = "burst" /\ wpc'[w] # "burst") =>
                   CountFrom(results', w) = CountFrom(results, w) + 1]_vars

\* a burst of two steps in which the last attempt failed after one accepted
\* split that moved the worker to a plan with a lower objective
C16_Witness ==
    \E w \in Threads :
        /\ wpc[w] = "burst"
        /\ wst[w].n_steps = 2
        /\ wst[w].step = 1
        /\ wst[w].last = "split_failed"
        /\ wst[w].partition # wst[w].start_partition
        /\ cfg.obj[wst[w].partition] < cfg.obj[wst[w].start_partition]

\* C17: when a worker takes a job that is not a termination job, its local
\* plan and its base plan become the plan the job carries if it carries one,
\* and otherwise the base plan of the previous burst; the running score and
\* best score become the objective of that plan, no best plan is recorded
\* and the step count is zero.
C17_BurstReset ==
    [][\A w \in Threads :
          (wpc[w] = "wait" /\ wpc'[w] = "burst") =>
              LET job == Head(jobs[w])
                  base == IF job.diff # None THEN job.diff[1]
                          ELSE wst[w].start_partition
              IN /\ ~job.terminate
                 /\ wst'[w].start_partition = base
                 /\ wst'[w].partition = base
                 /\ wst'[w].best_score = cfg.obj[base]
                 /\ wst'[w].score = cfg.obj[base]
                 /\ wst'[w].best_partition = None
                 /\ wst'[w].step = 0
                 /\ wst'[w].n_steps = job.n_steps]_vars

\* a worker has just started a later burst on a replacement plan that scores
\* lower than the initial plan; nothing of its previous burst is left
C17_Witness ==
    \E w \in Threads :
        /\ wpc[w] = "burst"
        /\ step > 0
        /\ wst[w].step = 0
        /\ wst[w].n_steps = 2
        /\ wst[w].last = "none"
        /\ wst[w].start_partition # InitialPlan
        /\ wst[w].partition = wst[w].start_partition
        /\ wst[w].best_partition = None
        /\ wst[w].best_score = 0
        /\ cfg.obj[InitialPlan] = 1

\* the largest member of a non-empty set of numbers
Max(S) == CHOOSE x \in S : \A y \in S : y <= x

\* the objective of the plan worker w held before its k-th accepted step
PreScore(w, k) == cfg.obj[wst[w].traj[k]]

\* the latest accepted step of worker w whose pre-update score is the maximum
BestStep(w) ==
    LET m == Max({PreScore(w, k) : k \in 1 .. wst[w].step})
    IN Max({k \in 1 .. wst[w].step : PreScore(w, k) = m})

Full(packet) == packet.best_partition # None /\ packet.best_score # None

\* a packet that carries neither
Empty(packet) == packet.best_partition = None /\ packet.best_score = None

\* the burst jobs (not termination jobs) waiting in worker w's channel
BurstJobs(w) == SelectSeq(jobs[w], LAMBDA j : ~j.terminate)

\* C19: a worker has a best plan as soon as it has accepted one step, so with
\* a burst length of at least one every packet sent or received carries a
\* plan and a score, and with a burst length of zero every packet is empty;
\* with a burst length of at least one the main thread has a replacement
\* plan from the first packet of every round on, and every burst job sent
\* after the first round has begun carries a replacement plan, while the
\* initial jobs carry none.
C19_ResultsCarryPlan ==
    /\ \A w \in Threads :
          /\ wst[w].step >= 1 => wst[w].best_partition # None
          /\ wst[w].step = 0 => wst[w].best_partition = None
    /\ \A k \in DOMAIN results :
          IF cfg.burst_length >= 1 THEN Full(results[k]) ELSE Empty(results[k])
    /\ \A k \in DOMAIN roundLog :
          IF cfg.burst_length >= 1 THEN Full(roundLog[k]) ELSE Empty(roundLog[k])
    /\ (cfg.burst_length >= 1 /\ dpc = "collect" /\ got >= 1) => diff # None
    /\ \A w \in Threads : \A k \in DOMAIN BurstJobs(w) :
          IF cfg.burst_length >= 1 /\ (step > 0 \/ got = cfg.n_threads)
          THEN BurstJobs(w)[k].diff # None
          ELSE BurstJobs(w)[k].diff = None

\* under a constant objective a one-step burst tied with its seed score, its
\* packet was adopted, and the job of the second round carries that plan
C19_Witness ==
    /\ cfg.burst_length = 1
    /\ cfg.obj[0] = cfg.obj[1]
    /\ dpc = "collect"
    /\ step > 0
    /\ got = 0
    /\ partition = 1
    /\ \E w \in Threads : jobs[w] = <<[n_steps |-> 1, diff |-> Some(1), terminate |-> FALSE]>>

\* the plan the main thread held when it sent the jobs of the bursts that can
\* be running now: the plan at the start of the current round, or, once the
\* loop has ended, the plan it ended with
DispatchPlan == IF dpc = "collect" THEN roundBase.partition ELSE partition

\* C20: a worker inside a burst has as base plan the plan the main thread
\* held when it sent that burst's job, and a burst job still in a channel
\* will start its burst from that plan; so all workers start a round from
\* the same plan, the one the main thread had adopted.
C20_SharedBase ==
    \A w \in Threads :
        /\ wpc[w] = "burst" => wst[w].start_partition = DispatchPlan
        /\ \A k \in DOMAIN BurstJobs(w) :
              BurstStart(wst[w], BurstJobs(w)[k]).start_partition = DispatchPlan

\* in a later round worker 1 is inside its burst, started from the adopted
\* plan, while the main thread has already taken worker 2's packet and holds
\* another plan
C20_Witness ==
    /\ cfg.n_threads = 2
    /\ dpc = "collect"
    /\ step > 0
    /\ got = 1
    /\ wpc[1] = "burst"
    /\ wst[1].start_partition = 1
    /\ wst[2].start_partition = 1
    /\ roundBase.partition = 1
    /\ partition = 0

\* C21: when a round is complete the main thread's recorded score is not
\* lower than the score recorded when the round began, and once the loop has
\* ended the recorded score is at least the objective of the initial plan.
C21_HillClimbs ==
    /\ (dpc = "collect" /\ got = cfg.n_threads) => score >= roundBase.score
    /\ dpc \in {"join", "returned"} => score >= cfg.obj[InitialPlan]

\* C22: when optimize has returned no packet is left in the result channel,
\* each worker has started exactly as many bursts as the main thread has
\* completed rounds, and the accepted steps of all workers add up to the main
\* thread's step counter.
C22_NoWastedBurst ==
    dpc = "returned" =>
        /\ results = <<>>
        /\ \A w \in Threads : ahead.bursts[w] = 0
        /\ ahead.steps = 0

====
